---- MODULE Spec2Model ----
(***************************************************************************)
(* A model of belindamo/git_ga_benchmark:                                  *)
(*   - generate.py: fetch_github_data (paged, cached retrieval),           *)
(*     generate_tasks_for_type and the category loop of main;              *)
(*   - eval.py: get_source_answer, get_agent_answer, evaluate_git_qa,      *)
(*     load_tasks, evaluate_task and the sweep of main.                    *)
(* Each pipeline has its own specification over its own variables; the     *)
(* variables of the other pipelines stay at their initial values.          *)
(* fetch_github_data has three: a sequential run with crashes and re-runs  *)
(* (SpecFetch), two runs on one cache path (SpecRace), and a run without   *)
(* a cache against a remote whose listing ends, under fairness (SpecLive). *)
(***************************************************************************)
EXTENDS Integers, Sequences, FiniteSets, TLC

\* ------------------------------------------------------------------ bounds
\* Listing pages one invocation of fetch_github_data may request.
MaxPages == 2
\* Items the remote returns on one listing page (per_page is 100 in the code).
MaxPerPage == 1
\* Tasks the generation capability returns for one category (num_tasks is
\* advisory in the code).
MaxTasks == 2
\* Tasks in the loaded manifest (questions.json).
MaxSweep == 2

\* ------------------------------------------------------- program constants
\* generate.py:193  if remaining < 10
RateLimitFloor == 10
\* generate.py:164 / 109 / 114 / 122  status_code 200
StatusOk == 200

\* ------------------------------------------------------------------- state
VARIABLES
  \* ---- generate.py, fetch_github_data
  save_path,  \* the cache file: [exists, bytes], bytes a sequence of tokens
  fetch,      \* per invocation of fetch_github_data: its position and locals
  hist,       \* per invocation: what it has done so far (history, not program state)
  \* ---- generate.py, main (steps 5 and 6) and generate_tasks_for_type
  gen,        \* main's position, category index, all_tasks and, as history,
              \* the categories whose call has returned (processed)
  output_path,\* the task file: [exists, writes, tasks]
  lastCall,   \* the last call of generate_tasks_for_type: inputs and outcome (history)
  \* ---- eval.py, get_agent_answer on its own
  resolve,    \* a run, a file system, and the answer get_agent_answer gives for them
  \* ---- eval.py, main
  ev,         \* main's position, args, tasks, loop index, results and summary
  output,     \* the file named by --output: [exists, content]
  lastEval    \* the last call of evaluate_git_qa: inputs and outcome (history)

fetchVars == <<save_path, fetch, hist>>

genVars == <<gen, output_path, lastCall>>

evalVars == <<ev, output, lastEval>>

vars == <<fetchVars, genVars, resolve, evalVars>>

\* What each pipeline leaves alone.
notFetch == <<genVars, resolve, evalVars>>

notGen == <<fetchVars, resolve, evalVars>>

notResolve == <<fetchVars, genVars, evalVars>>

notEval == <<fetchVars, genVars, resolve>>

\* ------------------------------------------------------------------ helpers
RECURSIVE Flatten(_)
\* The concatenation of a sequence of sequences.
Flatten(ss) == IF ss = <<>> THEN <<>> ELSE Head(ss) \o Flatten(Tail(ss))

\* int(): the value of a non-empty string of decimal digits.
RECURSIVE ParseInt(_)
ParseInt(ds) ==
  IF ds = <<>> THEN 0 ELSE 10 * ParseInt(SubSeq(ds, 1, Len(ds) - 1)) + ds[Len(ds)]

\* ------------------------------------------------------------ the remote
\* An item of a listing page; number 0 stands for a missing or falsy 'number'.
Item(n) == [number |-> n, fetched |-> FALSE, comments |-> <<>>]

NoItem == Item(0)

\* The items the remote holds for page k, at most MaxPerPage of them.
RemotePage(k, n) == [i \in 1..n |-> Item(IF k = 2 /\ i = 1 THEN 0 ELSE 10 * k + i)]

\* X-RateLimit-Remaining header values, as digit strings; <<>> is no header.
RemainingHeaders == {<<>>, <<9>>, <<1, 0>>}

\* What one listing request for page k may answer.
ListingResponses(k) ==
  {[status |-> StatusOk, items |-> RemotePage(k, n), remaining |-> h] :
      n \in 0..MaxPerPage, h \in RemainingHeaders}
  \cup {[status |-> 403, items |-> <<>>, remaining |-> <<0>>]}

\* What one comment request may answer.
CommentResponses(tag) ==
  {[status |-> StatusOk, body |-> <<tag>>], [status |-> 404, body |-> <<>>]}

\* ------------------------------------------------------- the cache file
Absent == [exists |-> FALSE, bytes |-> <<>>]

Tok(t, v) == [t |-> t, v |-> v]

\* json.dump(all_items, f): the text written, as tokens.
JsonDump(xs) ==
  <<Tok("[", NoItem)>> \o [i \in 1..Len(xs) |-> Tok("item", xs[i])]
    \o <<Tok("]", NoItem)>>

\* Whether json.load accepts the text.
JsonValid(bs) ==
  /\ Len(bs) >= 2
  /\ bs[1].t = "["
  /\ bs[Len(bs)].t = "]"
  /\ \A i \in 2..(Len(bs) - 1) : bs[i].t = "item"

\* json.load(f) of a valid text.
JsonLoad(bs) == [i \in 1..(Len(bs) - 2) |-> bs[i + 1].v]

\* Mutant of WriteAt0: content another writer has put in the file is kept.
WriteAt0_KeepsOld(old, text) == IF old = <<>> THEN text ELSE old

\* Writing text at offset 0 of an open file whose content is old.
WriteAt0(old, text) ==
  IF Len(text) >= Len(old) THEN text
  ELSE text \o SubSeq(old, Len(text) + 1, Len(old))

\* -------------------------------------------------------------- fetch
Invocations == {1, 2}

\* The locals of an invocation that has not started its loop.
\*   pc: position; all_items, page, items: as in the code; ci: index of the
\*   item whose comments are fetched next; remaining: X-RateLimit-Remaining of
\*   the last listing response; result: the value returned; exit: why it ended.
Fresh(dt, fl, pc) ==
  [pc |-> pc, data_type |-> dt, fetch_comments_flag |-> fl, all_items |-> <<>>,
   page |-> 1, items |-> <<>>, ci |-> 1, remaining |-> <<>>, result |-> <<>>,
   exit |-> "none"]

\* The history of an invocation called with the cache file f.
\*   reqLog: the listing requests in order, each with the page asked for and
\*   the status, item count and quota header of its response; commentCalls:
\*   number of comment requests; got: the item lists added to all_items, in
\*   order; saved: number of completed saves; fileAtCall: the file at the call.
NoHistory(f) ==
  [reqLog |-> <<>>, commentCalls |-> 0, got |-> <<>>, saved |-> 0, fileAtCall |-> f]

FetchStart ==
  /\ save_path = Absent
  /\ fetch = [p \in Invocations |-> Fresh("pulls", FALSE, "idle")]
  /\ hist = [p \in Invocations |-> NoHistory(Absent)]

\* The locals after `return value`: the frame is gone, the value is kept.
Returned(l, value, why) ==
  [Fresh(l.data_type, l.fetch_comments_flag, "returned")
     EXCEPT !.result = value, !.exit = why, !.page = l.page]

\* The locals after an exception left the function, or the process died.
Ended(l, pc, why) ==
  [Fresh(l.data_type, l.fetch_comments_flag, pc) EXCEPT !.exit = why, !.page = l.page]

\* Mutant of UseCache: the cache is never looked for.
UseCache_Never(f) == FALSE

\* Whether fetch_github_data takes the cached branch (save_path.exists()).
UseCache(f) == f.exists

\* fetch_github_data is called: locals are fresh, the cache is looked for.
Call(p) ==
  /\ fetch[p].pc \in {"idle", "returned", "raised", "crashed"}
  /\ \E dt \in {"pulls", "issues"}, fl \in BOOLEAN :
       fetch' = [fetch EXCEPT ![p] =
                   Fresh(dt, fl, IF UseCache(save_path) THEN "load" ELSE "request")]
  /\ hist' = [hist EXCEPT ![p] = NoHistory(save_path)]
  /\ UNCHANGED save_path
  /\ UNCHANGED notFetch

\* json.load of the existing cache; a text json.load rejects raises.
LoadCache(p) ==
  /\ fetch[p].pc = "load"
  /\ fetch' = [fetch EXCEPT ![p] =
                 IF JsonValid(save_path.bytes)
                   THEN Returned(@, JsonLoad(save_path.bytes), "cache")
                   ELSE Ended(@, "raised", "load_error")]
  /\ UNCHANGED <<save_path, hist>>
  /\ UNCHANGED notFetch

\* Mutant of ListingVerdict: an empty page is taken as a page.
ListingVerdict_NoEmptyCheck(resp) ==
  IF resp.status # StatusOk THEN "http_error" ELSE "page"

\* What the loop does with a listing response: a "break" or the page.
ListingVerdict(resp) ==
  IF resp.status # StatusOk THEN "http_error"
  ELSE IF resp.items = <<>> THEN "empty"
  ELSE "page"

\* Mutant of AfterListing: a non-success response is retried, not a break.
AfterListing_Retry(l, resp) ==
  IF resp.status # StatusOk THEN l
  ELSE IF resp.items = <<>> THEN Returned(l, l.all_items, "empty")
  ELSE [l EXCEPT !.items = resp.items, !.remaining = resp.remaining, !.ci = 1,
                 !.pc = IF l.fetch_comments_flag THEN "comments" ELSE "open"]

\* The locals after the checks on a listing response.
AfterListing(l, resp) ==
  IF ListingVerdict(resp) = "page"
    THEN [l EXCEPT !.items = resp.items, !.remaining = resp.remaining, !.ci = 1,
                   !.pc = IF l.fetch_comments_flag THEN "comments" ELSE "open"]
    ELSE Returned(l, l.all_items, ListingVerdict(resp))

\* One listing request answered by one of the given responses, and the
\* checks on the response.
ListRequestFrom(p, responses) ==
  /\ fetch[p].pc = "request"
  /\ \E resp \in responses :
       /\ fetch' = [fetch EXCEPT ![p] = AfterListing(@, resp)]
       /\ hist' = [hist EXCEPT ![p].reqLog =
                     Append(@, [page |-> fetch[p].page, status |-> resp.status,
                                n |-> Len(resp.items), remaining |-> resp.remaining])]
  /\ UNCHANGED save_path
  /\ UNCHANGED notFetch

\* One listing request and the checks on its response.
ListRequest(p) ==
  /\ fetch[p].page <= MaxPages
  /\ ListRequestFrom(p, ListingResponses(fetch[p].page))

\* requests.get raises (no connection): the exception leaves the function.
RequestRaises(p) ==
  /\ fetch[p].pc \in {"request", "comments"}
  /\ fetch[p].pc = "request" => fetch[p].page <= MaxPages
  /\ fetch' = [fetch EXCEPT ![p] = Ended(@, "raised", "request_error")]
  /\ UNCHANGED <<save_path, hist>>
  /\ UNCHANGED notFetch

\* fetch_comments: the comments returned for the responses r1 (issue comments)
\* and r2 (review comments, asked for pull requests only).
FetchCommentsBody(dt, r1, r2) ==
  IF dt = "pulls"
    THEN (IF r1.status = StatusOk THEN r1.body ELSE <<>>)
           \o (IF r2.status = StatusOk THEN r2.body ELSE <<>>)
    ELSE (IF r1.status = StatusOk THEN r1.body ELSE <<>>)

\* fetch_comments: the number of requests it issues.
FetchCommentsCalls(dt) == IF dt = "pulls" THEN 2 ELSE 1

\* One turn of the loop over the page's items: the comments of item ci.
FetchComments(p) ==
  LET l == fetch[p]
      next == IF l.ci = Len(l.items) THEN "open" ELSE "comments" IN
  /\ l.pc = "comments"
  /\ l.ci <= Len(l.items)
  /\ IF l.items[l.ci].number # 0
       THEN /\ \E r1 \in CommentResponses("c"), r2 \in CommentResponses("r") :
                 fetch' = [fetch EXCEPT ![p].items[l.ci].fetched = TRUE,
                                        ![p].items[l.ci].comments =
                                           FetchCommentsBody(l.data_type, r1, r2),
                                        ![p].ci = @ + 1,
                                        ![p].pc = next]
            /\ hist' = [hist EXCEPT ![p].commentCalls =
                                      @ + FetchCommentsCalls(l.data_type)]
       ELSE /\ fetch' = [fetch EXCEPT ![p].ci = @ + 1, ![p].pc = next]
            /\ UNCHANGED hist
  /\ UNCHANGED save_path
  /\ UNCHANGED notFetch

\* all_items.extend(items); open(save_path, 'w') creates or truncates the file.
OpenTruncate(p) ==
  /\ fetch[p].pc = "open"
  /\ fetch' = [fetch EXCEPT ![p].all_items = @ \o fetch[p].items,
                            ![p].items = <<>>,
                            ![p].pc = "dump"]
  /\ hist' = [hist EXCEPT ![p].got = Append(@, fetch[p].items)]
  /\ save_path' = [exists |-> TRUE, bytes |-> <<>>]
  /\ UNCHANGED notFetch

\* Mutant of RateLimitLow: the quota header is never looked at.
RateLimitLow_Never(h) == FALSE

\* Mutant of RateLimitLow: the floor itself already stops the loop.
RateLimitLow_Inclusive(h) == h # <<>> /\ ParseInt(h) <= RateLimitFloor

\* Whether the loop stops for low quota after a page.
RateLimitLow(h) == h # <<>> /\ ParseInt(h) < RateLimitFloor

\* Mutant of SaveText: the save misses the newest item.
SaveText_Stale(xs) == JsonDump(SubSeq(xs, 1, Len(xs) - 1))

\* The text one save writes.
SaveText(xs) == JsonDump(xs)

\* Mutant of AfterSave: the page number is not advanced.
AfterSave_SamePage(l) ==
  IF RateLimitLow(l.remaining)
    THEN Returned(l, l.all_items, "rate_limit")
    ELSE [l EXCEPT !.remaining = <<>>, !.pc = "request"]

\* The locals after the save: the quota check, then page += 1.
AfterSave(l) ==
  IF RateLimitLow(l.remaining)
    THEN Returned(l, l.all_items, "rate_limit")
    ELSE [l EXCEPT !.page = @ + 1, !.remaining = <<>>, !.pc = "request"]

\* json.dump and the close of the file, then the quota check.
Dump(p) ==
  /\ fetch[p].pc = "dump"
  /\ save_path' = [exists |-> TRUE,
                   bytes |-> WriteAt0(save_path.bytes, SaveText(fetch[p].all_items))]
  /\ hist' = [hist EXCEPT ![p].saved = @ + 1]
  /\ fetch' = [fetch EXCEPT ![p] = AfterSave(@)]
  /\ UNCHANGED notFetch

\* The process dies mid-fetch. Inside the save, any proper prefix of the text
\* may have reached the file.
Crash(p) ==
  /\ fetch[p].pc \in {"load", "request", "comments", "open", "dump"}
  /\ fetch' = [fetch EXCEPT ![p] = Ended(@, "crashed", fetch[p].pc)]
  /\ IF fetch[p].pc = "dump"
       THEN \E n \in 0..(Len(SaveText(fetch[p].all_items)) - 1) :
              save_path' = [exists |-> TRUE,
                            bytes |-> WriteAt0(save_path.bytes,
                                               SubSeq(SaveText(fetch[p].all_items), 1, n))]
       ELSE UNCHANGED save_path
  /\ UNCHANGED hist
  /\ UNCHANGED notFetch

FetchStep(p) ==
  \/ Call(p)
  \/ LoadCache(p)
  \/ ListRequest(p)
  \/ RequestRaises(p)
  \/ FetchComments(p)
  \/ OpenTruncate(p)
  \/ Dump(p)
  \/ Crash(p)

\* The invocations of a sequential run: one at a time, re-run at will.
Sequential == {1}

FetchNext == \E p \in Sequential : FetchStep(p)

\* ------------------------------------- a remote whose listing comes to an end
\* The responses after which the loop breaks: non-success, an empty page, or
\* a quota header below the floor.
StoppingResponses(k) ==
  {r \in ListingResponses(k) :
     \/ r.status # StatusOk
     \/ r.items = <<>>
     \/ (r.remaining # <<>> /\ ParseInt(r.remaining) < RateLimitFloor)}

\* One listing request to a remote that answers as it likes for the first
\* MaxPages pages and gives a stopping response for the page after them.
LiveListRequest(p) ==
  /\ fetch[p].page <= MaxPages + 1
  /\ ListRequestFrom(p, IF fetch[p].page <= MaxPages
                          THEN ListingResponses(fetch[p].page)
                          ELSE StoppingResponses(fetch[p].page))

\* fetch_github_data is called for the issues when there is no cache file.
LiveCall(p) ==
  /\ fetch[p].pc = "idle"
  /\ ~UseCache(save_path)
  /\ \E fl \in BOOLEAN : fetch' = [fetch EXCEPT ![p] = Fresh("issues", fl, "request")]
  /\ hist' = [hist EXCEPT ![p] = NoHistory(save_path)]
  /\ UNCHANGED save_path
  /\ UNCHANGED notFetch

\* The steps of a fetch without a cache in a run in which every request is
\* answered and the process is not killed.
LiveNext ==
  \E p \in Sequential :
    \/ LiveCall(p)
    \/ LiveListRequest(p)
    \/ FetchComments(p)
    \/ OpenTruncate(p)
    \/ Dump(p)

\* ------------------------------------------ two fetches on one cache path
\* Two runs of the program started on the same repository: each calls
\* fetch_github_data once, for the same data type and so the same save_path,
\* with --skip-comments.
RaceCall(p) ==
  /\ fetch[p].pc = "idle"
  /\ fetch' = [fetch EXCEPT ![p] =
                 Fresh("pulls", FALSE, IF UseCache(save_path) THEN "load" ELSE "request")]
  /\ hist' = [hist EXCEPT ![p] = NoHistory(save_path)]
  /\ UNCHANGED save_path
  /\ UNCHANGED notFetch

\* The listing responses with no quota header or a quota below the floor,
\* and the non-success one.
RaceResponses(k) ==
  {r \in ListingResponses(k) :
     r.status # StatusOk \/ r.remaining = <<>> \/ RateLimitLow(r.remaining)}

RaceListRequest(p) ==
  /\ fetch[p].page <= MaxPages
  /\ ListRequestFrom(p, RaceResponses(fetch[p].page))

\* The steps of the two runs interleave at will: nothing orders them.
RaceNext ==
  \E p \in Invocations :
    \/ RaceCall(p)
    \/ LoadCache(p)
    \/ RaceListRequest(p)
    \/ OpenTruncate(p)
    \/ Dump(p)

\* ------------------------------------- generate_tasks_for_type and main
\* task_types of main, in the dict's order.
TaskTypes ==
  <<"bug_patterns", "timeline_questions", "system_interactions",
    "people_process", "performance_evolution">>

\* The i-th task the generation capability returns for a category.
Candidate(type, i) == [task_id |-> <<type, i>>]

\* What the generator call may do: raise, or return up to MaxTasks tasks.
GeneratorOutcomes(type) ==
  {[raised |-> TRUE, tasks |-> <<>>]}
  \cup {[raised |-> FALSE, tasks |-> [i \in 1..n |-> Candidate(type, i)]] :
          n \in 0..MaxTasks}

\* What the deduplicator call may do with the candidates: raise, or keep the
\* first m of them.
DeduplicatorOutcomes(tasks) ==
  {[raised |-> TRUE, unique_tasks |-> <<>>]}
  \cup {[raised |-> FALSE, unique_tasks |-> SubSeq(tasks, 1, m)] :
          m \in 0..Len(tasks)}

\* The dict appended to generated_tasks for one unique task.
OutputTask(task) == [task_id |-> task.task_id, dir_name |-> "github_qa/repo"]

\* Mutant of GenerateTasksForType: no try around the generator call.
GenerateTasksForType_NoTry(prep, g, d) ==
  IF prep = "raise" \/ g.raised THEN [raised |-> TRUE, value |-> <<>>]
  ELSE IF d.raised THEN [raised |-> FALSE, value |-> <<>>]
  ELSE [raised |-> FALSE,
        value |-> [i \in 1..Len(d.unique_tasks) |-> OutputTask(d.unique_tasks[i])]]

\* Mutant of GenerateTasksForType: the deduplicator call is outside the try.
GenerateTasksForType_DedupOutsideTry(prep, g, d) ==
  IF prep = "raise" THEN [raised |-> TRUE, value |-> <<>>]
  ELSE IF g.raised THEN [raised |-> FALSE, value |-> <<>>]
  ELSE IF d.raised THEN [raised |-> TRUE, value |-> <<>>]
  ELSE [raised |-> FALSE,
        value |-> [i \in 1..Len(d.unique_tasks) |-> OutputTask(d.unique_tasks[i])]]

\* generate_tasks_for_type: what the call does, given whether building the
\* prompt text raises (prep, before the try), the generator's outcome g and
\* the deduplicator's outcome d (both inside the try).
GenerateTasksForType(prep, g, d) ==
  IF prep = "raise" THEN [raised |-> TRUE, value |-> <<>>]
  ELSE IF g.raised \/ d.raised THEN [raised |-> FALSE, value |-> <<>>]
  ELSE [raised |-> FALSE,
        value |-> [i \in 1..Len(d.unique_tasks) |-> OutputTask(d.unique_tasks[i])]]

NoCall ==
  [task_type |-> "none", prep |-> "ok", generator |-> "none",
   candidates |-> 0, deduplicator |-> "none",
   ret |-> [raised |-> FALSE, value |-> <<>>], before |-> <<>>]

GenStart ==
  /\ gen = [pc |-> "loop", idx |-> 1, all_tasks |-> <<>>, processed |-> <<>>]
  /\ output_path = [exists |-> FALSE, writes |-> 0, tasks |-> <<>>]
  /\ lastCall = NoCall

\* One turn of main's loop over task_types: the call and all_tasks.extend.
\* An exception the call lets out ends main.
GenerateCategory ==
  /\ gen.pc = "loop"
  /\ gen.idx <= Len(TaskTypes)
  /\ \E prep \in {"ok", "raise"}, g \in GeneratorOutcomes(TaskTypes[gen.idx]) :
       \E d \in DeduplicatorOutcomes(g.tasks) :
         LET ret == GenerateTasksForType(prep, g, d) IN
         /\ lastCall' =
              [task_type |-> TaskTypes[gen.idx],
               prep |-> prep,
               generator |-> IF prep = "raise" THEN "none"
                             ELSE IF g.raised THEN "raise" ELSE "ok",
               candidates |-> IF prep = "raise" THEN 0 ELSE Len(g.tasks),
               deduplicator |-> IF prep = "raise" \/ g.raised THEN "none"
                                ELSE IF d.raised THEN "raise" ELSE "ok",
               ret |-> ret,
               before |-> gen.all_tasks]
         /\ gen' = IF ret.raised
                     THEN [gen EXCEPT !.pc = "aborted"]
                     ELSE [gen EXCEPT !.all_tasks = @ \o ret.value,
                                      !.idx = @ + 1,
                                      !.processed =
                                         Append(@, [task_type |-> TaskTypes[gen.idx],
                                                    failed |-> g.raised \/ d.raised,
                                                    tasks |-> ret.value])]
  /\ UNCHANGED output_path
  /\ UNCHANGED notGen

\* Mutant of SaveTasks: the file is written as soon as one category is done.
SaveTasks_Early ==
  /\ gen.pc = "loop"
  /\ gen.idx > 1
  /\ output_path' = [exists |-> TRUE, writes |-> output_path.writes + 1,
                     tasks |-> gen.all_tasks]
  /\ gen' = [gen EXCEPT !.pc = "done"]
  /\ UNCHANGED lastCall
  /\ UNCHANGED notGen

\* Step 6 of main: json.dump(all_tasks) to output_path, after the loop.
SaveTasks ==
  /\ gen.pc = "loop"
  /\ gen.idx > Len(TaskTypes)
  /\ output_path' = [exists |-> TRUE, writes |-> output_path.writes + 1,
                     tasks |-> gen.all_tasks]
  /\ gen' = [gen EXCEPT !.pc = "done"]
  /\ UNCHANGED lastCall
  /\ UNCHANGED notGen

GenNext == GenerateCategory \/ SaveTasks

\* ------------------------------------------------ eval.py: the answers
\* output_files of get_agent_answer, in its order.
OutputFiles ==
  <<"answer.txt", "analysis.md", "response.txt", "output.txt",
    "result.md", "solution.txt", "findings.txt", "agent_output.txt">>

\* Texts are sequences of tokens; len() is their length.
FileText(name) == <<name>>

\* f"No source answer found for task {task_id}"
NoSourceAnswer(task_id) == <<"No source answer found for task", task_id>>

\* The string get_agent_answer returns when it finds no file.
NoAgentAnswer == <<"No agent answer file found.", "Agent may have", "provided answer in terminal output only.">>

\* What a function gives: a value, or an exception that leaves it.
Value(v) == [raised |-> FALSE, value |-> v]

Raise(e) == [raised |-> TRUE, value |-> <<e>>]

\* Path.read_text() of an existing path: unreadable paths (a directory,
\* bytes that are not UTF-8, no permission) raise.
ReadText(name, fs) ==
  IF name \in fs.unreadable THEN Raise("read_error") ELSE Value(FileText(name))

\* get_source_answer: fs.source says whether source_answers/<task_id>.md exists.
GetSourceAnswer(task_id, fs) ==
  IF ~fs.source THEN Value(NoSourceAnswer(task_id)) ELSE ReadText("source", fs)

\* The loop of get_agent_answer over output_files from position k.
RECURSIVE SearchOutputFiles(_, _)
SearchOutputFiles(k, fs) ==
  IF k > Len(OutputFiles) THEN Value(NoAgentAnswer)
  ELSE IF OutputFiles[k] \in fs.env THEN ReadText(OutputFiles[k], fs)
  ELSE SearchOutputFiles(k + 1, fs)

\* Mutant of GetAgentAnswer: the env files are looked at before the path.
GetAgentAnswer_EnvFirst(agent_answer_path, fs) ==
  IF fs.env # {} THEN SearchOutputFiles(1, fs)
  ELSE IF agent_answer_path \notin {"None", ""} /\ fs.explicit
    THEN ReadText("explicit", fs)
  ELSE Value(NoAgentAnswer)

\* get_agent_answer: agent_answer_path is "None", "" or a path; fs.explicit
\* says whether that path exists, fs.env which output files exist in env_path.
GetAgentAnswer(agent_answer_path, fs) ==
  IF agent_answer_path \notin {"None", ""} /\ fs.explicit
    THEN ReadText("explicit", fs)
    ELSE SearchOutputFiles(1, fs)

\* ------------------------------------ get_agent_answer as a function
AgentAnswerPaths == {"None", "", "answers/a.txt"}

\* Every file system over the output files, with at most one unreadable path.
ResolveFileSystems ==
  {[source |-> FALSE, explicit |-> x, env |-> e, unreadable |-> u] :
     x \in BOOLEAN, e \in SUBSET {OutputFiles[k] : k \in 1..Len(OutputFiles)},
     u \in {{}} \cup {{n} : n \in {"explicit", "answer.txt", "output.txt", "agent_output.txt"}}}

ResolveStart ==
  resolve \in {[pc |-> "call", agent_answer_path |-> a, fs |-> f, answer |-> Value(<<>>)] :
                a \in AgentAnswerPaths, f \in ResolveFileSystems}

ResolveIdle ==
  resolve = [pc |-> "idle", agent_answer_path |-> "None",
             fs |-> [source |-> FALSE, explicit |-> FALSE, env |-> {}, unreadable |-> {}],
             answer |-> Value(<<>>)]

\* get_agent_answer is applied to the run and the file system.
Resolve ==
  /\ resolve.pc = "call"
  /\ resolve' = [resolve EXCEPT !.pc = "done",
                                !.answer = GetAgentAnswer(resolve.agent_answer_path, resolve.fs)]
  /\ UNCHANGED notResolve

ResolveNext == Resolve

\* -------------------------------------------- eval.py: evaluate_git_qa
\* A key a dict does not hold.
NoKey == "<no key>"

\* What the rubric-scoring call may return: the four criteria and the total,
\* integers the code takes as they come.
Rubric(pr, se, rc, ai, total) ==
  [pattern_recognition |-> pr, specific_evidence |-> se,
   root_cause_analysis |-> rc, actionable_insights |-> ai, total_score |-> total]

RubricOutputs ==
  {Rubric(25, 20, 15, 10, 70), Rubric(0, 0, 0, 0, 0), Rubric(25, 25, 25, 25, 100),
   Rubric(25, 20, 15, 10, 60), Rubric(30, 25, 25, 25, 105)}

\* What the evaluator call may do: raise, or return a rubric result.
ScoringOutcomes ==
  {[raised |-> TRUE, result |-> Rubric(0, 0, 0, 0, 0)]}
  \cup {[raised |-> FALSE, result |-> r] : r \in RubricOutputs}

\* EvalResult of a scored run. Scores are kept in hundredths:
\* normalized_score = total_score / 100.0.
ScoredResult(task_id, r, source_answer, agent_answer) ==
  [score |-> r.total_score,
   details |-> [error |-> NoKey, task_id |-> task_id, rubric |-> r,
                source_answer_length |-> Len(source_answer),
                agent_answer_length |-> Len(agent_answer)]]

\* EvalResult of the except branch: score 0.0 and the error in details.
FailedResult(task_id, source_answer, agent_answer) ==
  [score |-> 0,
   details |-> [error |-> "scoring_error", task_id |-> task_id,
                rubric |-> Rubric(0, 0, 0, 0, 0),
                source_answer_length |-> Len(source_answer),
                agent_answer_length |-> Len(agent_answer)]]

\* The try block of evaluate_git_qa, the two answers in hand.
ScoreAnswers(task_id, source_answer, agent_answer, scoring) ==
  IF scoring.raised
    THEN Value(FailedResult(task_id, source_answer, agent_answer))
    ELSE Value(ScoredResult(task_id, scoring.result, source_answer, agent_answer))

\* Mutant of EvaluateGitQA: the two answers are read inside the try.
EvaluateGitQA_ReadsInsideTry(task_id, agent_answer_path, fs, scoring) ==
  LET src == GetSourceAnswer(task_id, fs)
      agt == GetAgentAnswer(agent_answer_path, fs) IN
  IF src.raised \/ agt.raised THEN Value(FailedResult(task_id, <<>>, <<>>))
  ELSE ScoreAnswers(task_id, src.value, agt.value, scoring)

\* evaluate_git_qa (and evaluate_task, which builds the Run and calls it):
\* the answers are read before the try, the scoring call is inside it.
EvaluateGitQA(task_id, agent_answer_path, fs, scoring) ==
  LET src == GetSourceAnswer(task_id, fs)
      agt == GetAgentAnswer(agent_answer_path, fs) IN
  IF src.raised THEN src
  ELSE IF agt.raised THEN agt
  ELSE ScoreAnswers(task_id, src.value, agt.value, scoring)

\* ---------------------------------------------------- eval.py: main
\* A dict of questions.json: its task_id, and which of the keys it holds.
\* json.load checks no schema.
Task(id, keys) == [task_id |-> id, keys |-> keys]

\* The keys a task dict may hold: both, or one of the two missing.
TaskKeys == {{"task_id", "task"}, {"task"}, {"task_id"}}

\* questions.json with n well-formed tasks; task ids are 1..n.
Manifest(n) == [i \in 1..n |-> Task(i, {"task_id", "task"})]

\* The task lists questions.json may hold, up to MaxSweep tasks.
Manifests ==
  UNION {{[i \in 1..n |-> Task(i, ks[i])] : ks \in [1..n -> TaskKeys]} :
           n \in 0..MaxSweep}

\* The file systems a task of a run is evaluated on.
EvalFileSystems ==
  {[source |-> sr, explicit |-> x, env |-> e, unreadable |-> u] :
     sr \in BOOLEAN, x \in BOOLEAN, e \in {{}, {"output.txt", "findings.txt"}},
     u \in {{}, {"source"}, {"output.txt"}, {"explicit"}}}

NoSummary == [average_score |-> [sum |-> 0, count |-> 1], tasks_evaluated |-> 0,
              total_tasks |-> 0]

NoEval ==
  [called |-> FALSE, source_exists |-> FALSE, source_raises |-> FALSE,
   agent_raises |-> FALSE, scoring_raises |-> FALSE, ret |-> Value(<<>>)]

\* The inputs and the outcome of one call of evaluate_git_qa, for the record.
EvalRecord(task_id, path, fs, scoring, ret) ==
  [called |-> TRUE,
   source_exists |-> fs.source,
   source_raises |-> fs.source /\ "source" \in fs.unreadable,
   agent_raises |-> ~(fs.source /\ "source" \in fs.unreadable)
                    /\ GetAgentAnswer(path, fs).raised,
   scoring_raises |-> scoring.raised,
   ret |-> ret]

EvalStart ==
  /\ ev = [pc |-> "start", manifest |-> "unread", tasks |-> <<>>, task_id |-> 0,
           agent_answer |-> "None",
           has_output |-> FALSE, i |-> 1, results |-> <<>>, escaped |-> {},
           summary |-> NoSummary]
  /\ output = [exists |-> FALSE, content |-> <<>>]
  /\ lastEval = NoEval

\* Mutant of LoadTasks: a missing questions.json reads as no task.
LoadTasks_EmptyWhenAbsent(manifest) ==
  IF manifest.exists THEN Value(manifest.tasks) ELSE Value(<<>>)

\* load_tasks: a missing questions.json raises FileNotFoundError.
LoadTasks(manifest) ==
  IF manifest.exists THEN Value(manifest.tasks) ELSE Raise("FileNotFoundError")

\* next((task for task in tasks if task["task_id"] == args.task_id), None),
\* from position k: the index found, 0 for None, or the KeyError of a task
\* without task_id met on the way.
RECURSIVE FindTask(_, _, _)
FindTask(tasks, tid, k) ==
  IF k > Len(tasks) THEN Value(0)
  ELSE IF "task_id" \notin tasks[k].keys THEN Raise("KeyError")
  ELSE IF tasks[k].task_id = tid THEN Value(k)
  ELSE FindTask(tasks, tid, k + 1)

\* main up to the branch on args.task_id: parse_args and load_tasks.
\* task_id 0 is no --task-id; agent_answer "None" is no --agent-answer.
Start ==
  /\ ev.pc = "start"
  /\ \E m \in {[exists |-> FALSE, tasks |-> <<>>]}
             \cup {[exists |-> TRUE, tasks |-> ts] : ts \in Manifests},
        tid \in 0..(MaxSweep + 1), path \in {"None", "answers/a.txt"}, out \in BOOLEAN :
       LET loaded == LoadTasks(m)
           found == FindTask(m.tasks, tid, 1) IN
       ev' = IF loaded.raised
               THEN [ev EXCEPT !.pc = "raised",
                               !.manifest = IF m.exists THEN "loaded" ELSE "absent"]
             ELSE [ev EXCEPT !.manifest = IF m.exists THEN "loaded" ELSE "absent",
                             !.tasks = loaded.value,
                             !.task_id = tid,
                             !.agent_answer = IF tid = 0 THEN "None" ELSE path,
                             !.has_output = out,
                             !.pc = IF tid = 0 THEN "sweep"
                                    ELSE IF found.raised THEN "raised"
                                    ELSE IF found.value = 0 THEN "not_found"
                                    ELSE "single"]
  /\ UNCHANGED <<output, lastEval>>
  /\ UNCHANGED notEval

\* evaluate_task: Run(task_id=task_data["task_id"], task=task_data["task"], ...)
\* raises KeyError for a missing key, then evaluate_git_qa.
EvaluateTask(task, agent_answer_path, fs, scoring) ==
  IF ~({"task_id", "task"} \subseteq task.keys) THEN Raise("KeyError")
  ELSE EvaluateGitQA(task.task_id, agent_answer_path, fs, scoring)

\* lastEval after evaluate_task: evaluate_git_qa is called only when the Run
\* could be built.
AfterEvaluateTask(task, agent_answer_path, fs, scoring) ==
  IF ~({"task_id", "task"} \subseteq task.keys) THEN lastEval
  ELSE EvalRecord(task.task_id, agent_answer_path, fs, scoring,
                  EvaluateGitQA(task.task_id, agent_answer_path, fs, scoring))

\* The branch for one named task: evaluate_task with no try around it, then
\* the optional output file.
EvaluateSingle ==
  /\ ev.pc = "single"
  /\ \E fs \in EvalFileSystems, scoring \in ScoringOutcomes :
       LET task == ev.tasks[FindTask(ev.tasks, ev.task_id, 1).value]
           ret == EvaluateTask(task, ev.agent_answer, fs, scoring) IN
       /\ lastEval' = AfterEvaluateTask(task, ev.agent_answer, fs, scoring)
       /\ ev' = [ev EXCEPT !.pc = IF ret.raised THEN "raised" ELSE "done"]
       /\ output' = IF ~ret.raised /\ ev.has_output
                      THEN [exists |-> TRUE,
                            content |-> <<[task_id |-> ev.task_id,
                                           score |-> ret.value.score,
                                           details |-> ret.value.details]>>]
                      ELSE output
  /\ UNCHANGED notEval

NoDetails == FailedResult(0, <<>>, <<>>).details

\* The dict the sweep appends for one task: the result, or the except branch.
SweepEntry(task_id, ret) ==
  IF ret.raised
    THEN [task_id |-> task_id, score |-> 0, details |-> NoDetails,
          has_details |-> FALSE, error |-> ret.value[1]]
    ELSE [task_id |-> task_id, score |-> ret.value.score,
          details |-> ret.value.details, has_details |-> TRUE, error |-> NoKey]

\* One turn of the sweep: print(task_data['task_id']) before the try, where a
\* KeyError ends main; then evaluate_task(task_data, args.env_path) in its try.
SweepTask ==
  /\ ev.pc = "sweep"
  /\ ev.i <= Len(ev.tasks)
  /\ LET task == ev.tasks[ev.i] IN
     IF "task_id" \notin task.keys
       THEN /\ ev' = [ev EXCEPT !.pc = "raised"]
            /\ UNCHANGED lastEval
       ELSE \E fs \in EvalFileSystems, scoring \in ScoringOutcomes :
              LET ret == EvaluateTask(task, "None", fs, scoring) IN
              /\ lastEval' = AfterEvaluateTask(task, "None", fs, scoring)
              /\ ev' = [ev EXCEPT !.results = Append(@, SweepEntry(task.task_id, ret)),
                                  !.escaped = IF ret.raised THEN @ \cup {ev.i} ELSE @,
                                  !.i = @ + 1]
  /\ UNCHANGED output
  /\ UNCHANGED notEval

RECURSIVE Sum(_)
Sum(xs) == IF xs = <<>> THEN 0 ELSE Head(xs) + Sum(Tail(xs))

\* Mutant of ValidScores: a result whose details hold an error is left out too.
ValidScores_SkipsSwallowed(results) ==
  LET RECURSIVE Pick(_)
      Pick(rs) == IF rs = <<>> THEN <<>>
                  ELSE IF Head(rs).error = NoKey /\ Head(rs).details.error = NoKey
                    THEN <<Head(rs).score>> \o Pick(Tail(rs))
                    ELSE Pick(Tail(rs)) IN
  Pick(results)

\* valid_scores: the scores of the results without an "error" key.
ValidScores(results) ==
  LET RECURSIVE Pick(_)
      Pick(rs) == IF rs = <<>> THEN <<>>
                  ELSE IF Head(rs).error = NoKey
                    THEN <<Head(rs).score>> \o Pick(Tail(rs))
                    ELSE Pick(Tail(rs)) IN
  Pick(results)

\* Mutant of Summary: the mean is taken over every result.
Summary_OverAll(results, tasks) ==
  [average_score |-> IF results # <<>>
                       THEN [sum |-> Sum(ValidScores(results)), count |-> Len(results)]
                       ELSE [sum |-> 0, count |-> 1],
   tasks_evaluated |-> Len(ValidScores(results)),
   total_tasks |-> Len(tasks)]

\* The summary of the sweep; the mean sum/count is kept as the pair, and 0.0
\* when there is no valid score.
Summary(results, tasks) ==
  LET valid_scores == ValidScores(results) IN
  [average_score |-> IF valid_scores # <<>>
                       THEN [sum |-> Sum(valid_scores), count |-> Len(valid_scores)]
                       ELSE [sum |-> 0, count |-> 1],
   tasks_evaluated |-> Len(valid_scores),
   total_tasks |-> Len(tasks)]

\* After the loop: the summary and the optional output file.
Summarize ==
  /\ ev.pc = "sweep"
  /\ ev.i > Len(ev.tasks)
  /\ ev' = [ev EXCEPT !.summary = Summary(ev.results, ev.tasks), !.pc = "done"]
  /\ output' = IF ev.has_output
                 THEN [exists |-> TRUE,
                       content |-> <<Summary(ev.results, ev.tasks), ev.results>>]
                 ELSE output
  /\ UNCHANGED lastEval
  /\ UNCHANGED notEval

EvalNext == Start \/ EvaluateSingle \/ SweepTask \/ Summarize

\* ------------------------------------------------------- specifications
Init == FetchStart /\ GenStart /\ ResolveIdle /\ EvalStart

SpecFetch == Init /\ [][FetchNext]_vars

SpecRace == Init /\ [][RaceNext]_vars

\* The program runs on: a statement that can be executed is executed.
SpecLive == Init /\ [][LiveNext]_vars /\ WF_vars(LiveNext)

SpecGen == Init /\ [][GenNext]_vars

ResolveInit == FetchStart /\ GenStart /\ ResolveStart /\ EvalStart

SpecResolve == ResolveInit /\ [][ResolveNext]_vars

SpecEval == Init /\ [][EvalNext]_vars

\* ------------------------------------------------- claims: fetch_github_data
\* A listing response after which the loop goes on to the next page.
GoesOn(e) ==
  /\ e.status = 200
  /\ e.n > 0
  /\ (e.remaining = <<>> \/ ParseInt(e.remaining) >= 10)

\* C1: a fetch called with a cache file holding a complete (well-formed) item
\* list returns exactly the stored list, issues no listing and no comment
\* request, and leaves the file as it was.
C1_CachedFetchNoNetwork ==
  \A p \in Sequential : LET h == hist[p] l == fetch[p] IN
  (l.pc # "idle" /\ h.fileAtCall.exists /\ JsonValid(h.fileAtCall.bytes)) =>
     /\ h.reqLog = <<>>
     /\ h.commentCalls = 0
     /\ save_path = h.fileAtCall
     /\ l.pc \in {"load", "returned", "crashed"}
     /\ l.pc = "returned" => JsonDump(l.result) = h.fileAtCall.bytes

\* C1 witness: a fetch has returned a stored list of two items from the cache.
C1_Witness ==
  \E p \in Sequential :
    /\ fetch[p].pc = "returned"
    /\ fetch[p].exit = "cache"
    /\ hist[p].fileAtCall.exists
    /\ Len(fetch[p].result) = 2

\* C2: at every page boundary (a save has completed and the next one has not
\* begun) the cache file holds exactly the dump of the accumulated list, all
\* items of the pages so far in retrieval order, and nothing else.
C2_CacheEqualsAccumulated ==
  \A p \in Sequential : LET h == hist[p] l == fetch[p] IN
  (h.saved >= 1 /\ l.pc \in {"request", "comments", "open", "returned"}) =>
     /\ save_path.exists
     /\ save_path.bytes = JsonDump(Flatten(SubSeq(h.got, 1, h.saved)))
     /\ h.saved = Len(h.got)
     /\ l.pc \in {"request", "comments", "open"} => l.all_items = Flatten(h.got)
     /\ l.pc = "returned" => l.result = Flatten(h.got)

\* C2 witness: two pages have been saved and the loop is at the top again.
C2_Witness ==
  \E p \in Sequential :
    /\ fetch[p].pc = "request"
    /\ hist[p].saved = 2
    /\ Len(fetch[p].all_items) = 2
    /\ save_path.bytes = JsonDump(fetch[p].all_items)

\* C3 (as claimed, for a crash after at least one page was saved): after a
\* crash the cache file exists and holds a well-formed list of the items of
\* the pages completed before the crash.
C3_CrashLeavesUsableCache ==
  \A p \in Sequential : LET h == hist[p] l == fetch[p] IN
  (l.pc = "crashed" /\ h.saved >= 1) =>
     /\ save_path.exists
     /\ JsonValid(save_path.bytes)
     /\ JsonLoad(save_path.bytes) = Flatten(SubSeq(h.got, 1, h.saved))

\* C4: a non-success listing response for page k ends the loop at once: it is
\* the last request of the fetch (page k is not asked again, no later page is
\* asked), the fetch returns exactly the items of pages 1..k-1, and the cache
\* is as it was after page k-1 (untouched when k = 1).
C4_NonSuccessAbortsPaging ==
  \A p \in Sequential : LET h == hist[p] l == fetch[p] IN
  \A k \in 1..Len(h.reqLog) :
     h.reqLog[k].status # 200 =>
       /\ k = Len(h.reqLog)
       /\ \A j \in 1..k : h.reqLog[j].page = j
       /\ l.pc = "returned"
       /\ Len(h.got) = k - 1
       /\ h.saved = k - 1
       /\ l.result = Flatten(h.got)
       /\ save_path = IF k = 1 THEN h.fileAtCall
                      ELSE [exists |-> TRUE, bytes |-> JsonDump(Flatten(h.got))]

\* C4 witness: page 2 answered non-success after page 1 was saved.
C4_Witness ==
  \E p \in Sequential :
    /\ Len(hist[p].reqLog) = 2
    /\ hist[p].reqLog[2].status # 200
    /\ Len(fetch[p].result) = 1
    /\ fetch[p].pc = "returned"

\* C5: without a cache, as long as the listing answers with success the loop
\* asks for the next page until a page is empty or carries a remaining quota
\* below 10; a stop for low quota returns and persists everything retrieved,
\* the page that carried the low quota included, and asks for no further page.
C5_PagingStopsOnEmptyOrLowQuota ==
  \A p \in Sequential : LET h == hist[p] l == fetch[p] n == Len(h.reqLog) IN
  /\ \A i \in 1..n : h.reqLog[i].page = i /\ (i < n => GoesOn(h.reqLog[i]))
  /\ l.pc = "request" => l.page = n + 1
  /\ (l.pc = "returned" /\ l.exit # "cache") => (n >= 1 /\ ~GoesOn(h.reqLog[n]))
  /\ (n >= 1 /\ GoesOn(h.reqLog[n]))
       => l.pc \in {"comments", "open", "dump", "request", "raised", "crashed"}
  /\ (n >= 1 /\ h.saved = n /\ h.reqLog[n].status = 200 /\ h.reqLog[n].n > 0
        /\ ~GoesOn(h.reqLog[n])) =>
       /\ l.pc = "returned"
       /\ Len(h.got) = n
       /\ l.result = Flatten(h.got)
       /\ save_path = [exists |-> TRUE, bytes |-> JsonDump(l.result)]

\* C5 witness: page 1 carried quota 10 and the loop went on; page 2 carried
\* quota 9 and the fetch returned both pages.
C5_Witness ==
  \E p \in Sequential :
    /\ fetch[p].pc = "returned"
    /\ Len(hist[p].reqLog) = 2
    /\ hist[p].reqLog[1].remaining = <<1, 0>>
    /\ hist[p].reqLog[2].remaining = <<9>>
    /\ hist[p].reqLog[2].n > 0
    /\ Len(fetch[p].result) = 2

\* C16: within one fetch the k-th listing request is for page k, so pages are
\* asked for in increasing order from page 1 and none twice; between a
\* response and the end of its save the page number stays that of the
\* response, and the next request is for the page after it.
C16_PagesRequestedInOrder ==
  \A p \in Sequential : LET h == hist[p] l == fetch[p] n == Len(h.reqLog) IN
  /\ \A k \in 1..n : h.reqLog[k].page = k
  /\ \A j, k \in 1..n : h.reqLog[j].page = h.reqLog[k].page => j = k
  /\ l.pc \in {"comments", "open", "dump"} => (n >= 1 /\ l.page = n)
  /\ l.pc = "request" => l.page = n + 1

\* C16 witness: a fetch has asked for every page up to the last one the model
\* allows, in order.
C16_Witness ==
  \E p \in Sequential :
    /\ Len(hist[p].reqLog) = MaxPages
    /\ \A k \in 1..MaxPages : hist[p].reqLog[k].page = k
    /\ hist[p].reqLog[MaxPages].n > 0

\* A fetch has returned from its loop with nothing accumulated.
ReturnedNothing(p) ==
  /\ fetch[p].pc = "returned"
  /\ fetch[p].exit # "cache"
  /\ fetch[p].result = <<>>

\* On return, a cache file that exists holds exactly the returned list; a
\* fetch that accumulated nothing asked for page 1 only, got an empty page or
\* a non-success response, and left no cache file.
ReturnedEqualsCache ==
  \A p \in Sequential : LET h == hist[p] l == fetch[p] IN
  /\ (l.pc = "returned" /\ save_path.exists) => save_path.bytes = JsonDump(l.result)
  /\ ReturnedNothing(p) =>
       /\ ~save_path.exists
       /\ ~h.fileAtCall.exists
       /\ Len(h.reqLog) = 1
       /\ (h.reqLog[1].status # 200 \/ h.reqLog[1].n = 0)
  /\ (l.pc = "returned" /\ l.exit # "cache" /\ h.got = <<>>) => ReturnedNothing(p)

\* The call that follows a fetch that accumulated nothing goes to the network.
RefetchAfterNothing ==
  \A p \in Sequential :
    (ReturnedNothing(p) /\ fetch'[p] # fetch[p]) =>
       (fetch'[p].pc = "request" /\ fetch'[p].page = 1 /\ hist'[p].reqLog = <<>>)

\* C18: on return from any fetch the cache file, if it exists, holds exactly
\* the returned item sequence; a fetch that accumulated no item (first page
\* empty, or first listing response non-success) creates no cache file, and
\* the next fetch on the path goes to the network instead of returning an
\* empty cached list.
C18_ReturnEqualsCacheNoEmptyCache ==
  []ReturnedEqualsCache /\ [][RefetchAfterNothing]_vars

\* C18 witness: the first page came back empty; the fetch has returned the
\* empty list and there is no cache file.
C18_Witness ==
  \E p \in Sequential :
    /\ ReturnedNothing(p)
    /\ fetch[p].exit = "empty"
    /\ Len(hist[p].reqLog) = 1
    /\ ~save_path.exists

\* What the steps of a fetch do with the cache file, whoever else uses it.
UnlockedStep ==
  \A p \in Invocations : LET l == fetch[p] IN
  \* the check is made once, at the call: a fetch in its loop never loads
  /\ l.pc \in {"request", "open", "dump"} => fetch'[p].pc # "load"
  \* open(save_path, 'w') empties the file, whatever it holds
  /\ (l.pc = "open" /\ fetch'[p].pc = "dump") =>
       save_path' = [exists |-> TRUE, bytes |-> <<>>]
  \* the dump puts the fetch's own list at the start of the file, whatever
  \* another fetch has written since the open
  /\ (l.pc = "dump" /\ fetch'[p].pc # "dump") =>
       SubSeq(save_path'.bytes, 1, Len(l.all_items) + 2) = JsonDump(l.all_items)
  \* a fetch that found the file returns what the file holds when it loads
  \* it, complete or not, and asks the remote for nothing
  /\ (l.pc = "load" /\ fetch'[p].pc = "returned") =>
       /\ JsonDump(fetch'[p].result) = save_path.bytes
       /\ hist'[p].reqLog = <<>>
       /\ fetch'[p].exit = "cache"

\* C17: the cache is checked once at the call and then written with no
\* locking: every step of a fetch acts on the file whatever the other fetch
\* has done to it. (The states the claim says are reachable are the witness
\* C17_Witness and C17_SkippedFetch.)
C17_CheckThenWriteUnlocked == [][UnlockedStep]_vars

\* C17 witness (lost update): both fetches have returned from their loops and
\* the cache holds a well-formed list with fewer items than one of them
\* returned: its longer list was overwritten by the other's shorter one.
C17_Witness ==
  /\ \A p \in Invocations : fetch[p].pc = "returned" /\ fetch[p].exit # "cache"
  /\ JsonValid(save_path.bytes)
  /\ \E p \in Invocations : Len(JsonLoad(save_path.bytes)) < Len(fetch[p].result)

\* (skipped fetch): one fetch found the other's cache while the other was
\* still fetching, made no request and returned fewer items than the other
\* went on to return.
C17_SkippedFetch ==
  \E p, q \in Invocations :
    /\ fetch[p].pc = "returned" /\ fetch[p].exit = "cache"
    /\ hist[p].reqLog = <<>>
    /\ fetch[q].pc = "returned" /\ fetch[q].exit # "cache"
    /\ Len(fetch[p].result) < Len(fetch[q].result)

\* (corrupted cache): both fetches have returned from their loops and the
\* cache is a text json.load rejects.
C17_CorruptedCache ==
  /\ \A p \in Invocations : fetch[p].pc = "returned" /\ fetch[p].exit # "cache"
  /\ save_path.exists
  /\ ~JsonValid(save_path.bytes)

\* A fetch is in its loop.
InLoop(p) == fetch[p].pc \in {"request", "comments", "open", "dump"}

\* The loop is left only after a response that is empty, non-success or low
\* on quota: a fetch whose responses all let the loop go on is still in it.
LoopHasThreeExits ==
  \A p \in Sequential : LET h == hist[p] l == fetch[p] n == Len(h.reqLog) IN
  /\ (l.pc = "returned" /\ l.exit # "cache") => (n >= 1 /\ ~GoesOn(h.reqLog[n]))
  /\ (n >= 1 /\ \A i \in 1..n : GoesOn(h.reqLog[i])) => InLoop(p)

\* C20: a fetch without a cache returns once the remote answers a listing
\* request with an empty page, a non-success response or a quota below 10 (in
\* the model, by page MaxPages + 1 at the latest); the loop has no other exit,
\* so as long as every response is a non-empty success with no low quota the
\* fetch is still in its loop, asking for the next page.
C20_FetchTerminatesIffRemoteStops ==
  /\ \A p \in Sequential : InLoop(p) ~> (fetch[p].pc = "returned")
  /\ []LoopHasThreeExits

\* C20 witness: MaxPages pages let the loop go on, the page after them was
\* empty, and the fetch has returned the MaxPages pages.
C20_Witness ==
  \E p \in Sequential :
    /\ fetch[p].pc = "returned"
    /\ fetch[p].exit = "empty"
    /\ Len(hist[p].reqLog) = MaxPages + 1
    /\ \A i \in 1..MaxPages : GoesOn(hist[p].reqLog[i])
    /\ Len(hist[p].got) = MaxPages

\* --------------------------------------- claims: generate_tasks_for_type
\* C6: when the generation capability raises, generate_tasks_for_type raises
\* nothing and returns the empty list; main goes on and the category adds no
\* task to all_tasks.
C6_GenerationFailureSwallowed ==
  lastCall.generator = "raise" =>
     /\ ~lastCall.ret.raised
     /\ lastCall.ret.value = <<>>
     /\ gen.pc # "aborted"
     /\ gen.all_tasks = lastCall.before

\* C6 witness: the generator raised in a category after tasks were collected.
C6_Witness ==
  /\ lastCall.generator = "raise"
  /\ lastCall.task_type = "timeline_questions"
  /\ Len(gen.all_tasks) = 2

\* C7 (as claimed): when the deduplication capability raises, the failure
\* reaches the caller of generate_tasks_for_type.
C7_DedupFailurePropagates ==
  lastCall.deduplicator = "raise" => lastCall.ret.raised

\* C7 (amended): a failure of the deduplication capability is caught in
\* generate_tasks_for_type exactly as a generation failure is: nothing is
\* raised, the empty list is returned in place of the candidates, main goes
\* on and the category adds no task.
C7_DedupFailureSwallowed ==
  lastCall.deduplicator = "raise" =>
     /\ ~lastCall.ret.raised
     /\ lastCall.ret.value = <<>>
     /\ gen.pc # "aborted"
     /\ gen.all_tasks = lastCall.before

\* C7 witness: the deduplicator raised on two generated candidates.
C7_Witness ==
  /\ lastCall.deduplicator = "raise"
  /\ lastCall.candidates = 2
  /\ lastCall.ret.value = <<>>

\* ------------------------------------------- claims: the category loop
\* The categories in the order the spec gives them.
CategoryOrder ==
  <<"bug_patterns", "timeline_questions", "system_interactions",
    "people_process", "performance_evolution">>

\* The categories whose call has returned are the first ones of the fixed
\* order, each once.
ProcessedInOrder ==
  /\ Len(gen.processed) <= Len(CategoryOrder)
  /\ \A i \in 1..Len(gen.processed) : gen.processed[i].task_type = CategoryOrder[i]
  /\ gen.pc = "aborted" => lastCall.task_type = CategoryOrder[Len(gen.processed) + 1]

\* The output file is written at most once, only after all five categories
\* have been processed, with the per-category results in category order.
WrittenOnceAfterAll ==
  /\ output_path.writes <= 1
  /\ output_path.exists <=> output_path.writes = 1
  /\ output_path.exists =>
       /\ Len(gen.processed) = Len(CategoryOrder)
       /\ output_path.tasks =
            Flatten([i \in 1..Len(gen.processed) |-> gen.processed[i].tasks])

\* C13 (as claimed): categories are processed in the fixed order; a failure in
\* one category, whatever it is, does not stop the loop; the output file is
\* written exactly once, after all five, with the results in category order.
C13_AnyCategoryFailureIsolated ==
  /\ ProcessedInOrder
  /\ WrittenOnceAfterAll
  /\ gen.pc # "aborted"
  /\ gen.pc = "done" => output_path.writes = 1

\* C13 (amended): categories are processed in the fixed order; a failure of
\* the generation or the deduplication capability in one category gives that
\* category no task and the loop goes on; an exception raised before the
\* guarded calls (formatting the category's examples) is the only thing that
\* ends main early, and then no file is written; the output file is written
\* at most once, exactly once when main finishes, only after all five
\* categories, with the per-category results in category order.
C13_GuardedFailureIsolated ==
  /\ ProcessedInOrder
  /\ WrittenOnceAfterAll
  /\ gen.idx = Len(gen.processed) + 1
  /\ \A i \in 1..Len(gen.processed) :
       gen.processed[i].failed => gen.processed[i].tasks = <<>>
  /\ (lastCall.generator = "raise" \/ lastCall.deduplicator = "raise") =>
       /\ gen.pc # "aborted"
       /\ gen.processed[Len(gen.processed)] =
            [task_type |-> lastCall.task_type, failed |-> TRUE, tasks |-> <<>>]
  /\ gen.pc = "aborted" => (lastCall.prep = "raise" /\ ~output_path.exists)
  /\ gen.pc = "done" <=> output_path.exists

\* C13 witness: the second category failed inside the guarded calls, the
\* others gave tasks, and the file holds the four results in order.
C13_Witness ==
  /\ gen.pc = "done"
  /\ output_path.writes = 1
  /\ gen.processed[2].failed
  /\ \A i \in {1, 3, 4, 5} : ~gen.processed[i].failed /\ Len(gen.processed[i].tasks) = 1
  /\ output_path.tasks =
       <<OutputTask(Candidate("bug_patterns", 1)),
         OutputTask(Candidate("system_interactions", 1)),
         OutputTask(Candidate("people_process", 1)),
         OutputTask(Candidate("performance_evolution", 1))>>

\* ------------------------------------------------ claims: get_agent_answer
\* The first output file that exists in env_path, if any.
FirstExisting(fs, k) ==
  /\ OutputFiles[k] \in fs.env
  /\ \A j \in 1..(k - 1) : OutputFiles[j] \notin fs.env

\* C9: the candidate answer is the text at the explicit path when one is given
\* and exists; otherwise the text of the first existing file of the fixed
\* list in env_path; otherwise the "no answer found" string. A missing file,
\* a given path that does not exist included, never raises.
C9_AnswerResolutionPriority ==
  LET r == resolve
      given == r.agent_answer_path \notin {"None", ""} /\ r.fs.explicit IN
  r.pc = "done" =>
    /\ (given /\ "explicit" \notin r.fs.unreadable)
          => r.answer = Value(FileText("explicit"))
    /\ \A k \in 1..Len(OutputFiles) :
         (~given /\ FirstExisting(r.fs, k) /\ OutputFiles[k] \notin r.fs.unreadable)
            => r.answer = Value(FileText(OutputFiles[k]))
    /\ (~given /\ r.fs.env = {}) => r.answer = Value(NoAgentAnswer)
    /\ r.answer.raised =>
         \/ given /\ "explicit" \in r.fs.unreadable
         \/ ~given /\ \E k \in 1..Len(OutputFiles) :
                        FirstExisting(r.fs, k) /\ OutputFiles[k] \in r.fs.unreadable

\* C9 witness: a path is given but does not exist, answer.txt is missing too,
\* and the answer is read from the first file that exists, output.txt.
C9_Witness ==
  /\ resolve.pc = "done"
  /\ resolve.agent_answer_path = "answers/a.txt"
  /\ ~resolve.fs.explicit
  /\ resolve.fs.env = {"output.txt", "findings.txt"}
  /\ resolve.answer = Value(FileText("output.txt"))

\* ------------------------------------------------- claims: evaluate_git_qa
\* C8 (as claimed): evaluate_git_qa never raises; an exception while reading
\* the reference or the candidate answer, or while scoring, gives a record
\* with score 0.0 and an error detail.
C8_EvaluateNeverRaises ==
  lastEval.called =>
    /\ ~lastEval.ret.raised
    /\ (lastEval.source_raises \/ lastEval.agent_raises \/ lastEval.scoring_raises)
         => /\ lastEval.ret.value.score = 0
            /\ lastEval.ret.value.details.error # NoKey

\* C8 (amended): evaluate_git_qa catches the exceptions of the scoring call
\* only, and returns for them a record with score 0.0 and an error detail; an
\* exception while reading the reference or the candidate answer leaves
\* evaluate_git_qa, and nothing else does.
C8_OnlyScoringFailuresCaught ==
  lastEval.called =>
    /\ lastEval.ret.raised <=> (lastEval.source_raises \/ lastEval.agent_raises)
    /\ (lastEval.scoring_raises /\ ~lastEval.source_raises /\ ~lastEval.agent_raises)
         => /\ lastEval.ret.value.score = 0
            /\ lastEval.ret.value.details.error # NoKey

\* C8 witness: in a sweep the scoring call raised, both answers read, and the
\* record returned has score 0.0 and the error in its details.
C8_Witness ==
  /\ ev.pc = "sweep"
  /\ lastEval.called
  /\ lastEval.scoring_raises
  /\ ~lastEval.source_raises /\ ~lastEval.agent_raises
  /\ ~lastEval.ret.raised
  /\ lastEval.ret.value.score = 0
  /\ lastEval.ret.value.details.error = "scoring_error"

\* ------------------------------------------------- claims: missing inputs
\* C14: when questions.json is absent load_tasks raises and main ends there:
\* no task is evaluated, there is no result and no summary, and no output
\* file is written. When the reference answer of a task is absent,
\* get_source_answer raises nothing and gives the "not found" string, and the
\* evaluation goes on with it: a record comes back with it as the reference
\* answer unless reading the agent's answer raised.
C14_MissingManifestFatalMissingAnswerNot ==
  /\ ev.manifest = "absent" =>
       /\ ev.pc = "raised"
       /\ lastEval = NoEval
       /\ ev.results = <<>>
       /\ ev.summary = NoSummary
       /\ ~output.exists
  /\ (lastEval.called /\ ~lastEval.source_exists) =>
       /\ ~lastEval.source_raises
       /\ lastEval.ret.raised <=> lastEval.agent_raises
       /\ ~lastEval.ret.raised =>
            /\ lastEval.ret.value.details.source_answer_length
                 = Len(NoSourceAnswer(lastEval.ret.value.details.task_id))
            /\ ~lastEval.scoring_raises =>
                 lastEval.ret.value.details.error = NoKey

\* C14 witness: questions.json was absent; main has ended in load_tasks and
\* nothing was written.
C14_Witness ==
  /\ ev.manifest = "absent"
  /\ ev.pc = "raised"
  /\ ~output.exists

\* A task was scored against the "not found" string: the reference answer
\* was absent and the record carries a rubric result.
C14_ScoredWithoutReference ==
  /\ lastEval.called
  /\ ~lastEval.source_exists
  /\ ~lastEval.ret.raised
  /\ lastEval.ret.value.score = 70
  /\ lastEval.ret.value.details.source_answer_length = 2

\* ------------------------------------------------------ claims: the sweep
RECURSIVE SumScores(_, _)
\* The sum of the scores of the results at the indexes in I.
SumScores(results, I) ==
  IF I = {} THEN 0
  ELSE LET i == CHOOSE j \in I : TRUE IN
       results[i].score + SumScores(results, I \ {i})

\* C10: in a finished sweep every task has its entry; a task whose evaluation
\* raised has score 0 and an error string, and only those have one;
\* tasks_evaluated counts exactly the other tasks, and average_score is the
\* mean of their scores (0.0 when there is none).
C10_SweepIsolatesErrors ==
  LET N == Len(ev.tasks)
      ok == (1..N) \ ev.escaped IN
  (ev.pc = "done" /\ ev.task_id = 0) =>
    /\ Len(ev.results) = N
    /\ \A i \in 1..N :
         /\ ev.results[i].task_id = ev.tasks[i].task_id
         /\ i \in ev.escaped => (ev.results[i].score = 0 /\ ev.results[i].error # NoKey)
         /\ i \notin ev.escaped => ev.results[i].error = NoKey
    /\ ev.summary.tasks_evaluated = Cardinality(ok)
    /\ ev.summary.total_tasks = N
    /\ ev.summary.average_score =
         IF ok = {} THEN [sum |-> 0, count |-> 1]
         ELSE [sum |-> SumScores(ev.results, ok), count |-> Cardinality(ok)]

\* C10 witness: the first of two tasks raised while its answer was read, the
\* second scored 0.70; one task is evaluated and the mean is 0.70.
C10_Witness ==
  /\ ev.pc = "done" /\ ev.task_id = 0
  /\ Len(ev.tasks) = 2
  /\ ev.escaped = {1}
  /\ ev.results[1].error = "read_error"
  /\ ev.results[2].score = 70
  /\ ev.summary.tasks_evaluated = 1
  /\ ev.summary.average_score = [sum |-> 70, count |-> 1]

\* --------------------------------------------- claims: the rubric result
\* The record evaluate_git_qa returned carries a rubric result (it is the
\* record of the try block, not of the except branch).
CarriesRubric ==
  /\ lastEval.called
  /\ ~lastEval.ret.raised
  /\ lastEval.ret.value.details.error = NoKey

\* C11 (as claimed): in every rubric result carried by a record that
\* evaluate_git_qa returns, each of the four criteria is in [0,25],
\* total_score is their sum, and 0 <= total_score <= 100.
C11_TotalIsSumOfCriteria ==
  CarriesRubric =>
    LET r == lastEval.ret.value.details.rubric IN
    /\ \A c \in {r.pattern_recognition, r.specific_evidence,
                 r.root_cause_analysis, r.actionable_insights} : c \in 0..25
    /\ r.total_score = r.pattern_recognition + r.specific_evidence
                         + r.root_cause_analysis + r.actionable_insights
    /\ r.total_score \in 0..100

\* C12 (as claimed): every record evaluate_git_qa returns has a normalized
\* score in [0,1] (0..100 hundredths): total_score / 100 when scoring
\* succeeded, 0.0 when it failed.
C12_NormalizedScoreInUnitInterval ==
  (lastEval.called /\ ~lastEval.ret.raised) =>
    LET v == lastEval.ret.value IN
    /\ v.score \in 0..100
    /\ ~lastEval.scoring_raises => v.score = v.details.rubric.total_score
    /\ lastEval.scoring_raises => v.score = 0

\* The sweep so far: one result per task visited, in list order.
OneResultPerTaskInOrder(n) ==
  /\ Len(ev.results) = n
  /\ \A j \in 1..n : ev.results[j].task_id = ev.tasks[j].task_id

\* C15 (as claimed): a sweep over any loaded task list never ends early: the
\* tasks are visited once each in list order, and at the end there is one
\* result per task in that order and a summary with
\* tasks_evaluated <= total_tasks = len(tasks), whatever the tasks hold and
\* whatever their evaluation does.
C15_SweepAlwaysFinishes ==
  (ev.manifest = "loaded" /\ ev.task_id = 0) =>
    /\ ev.pc \in {"sweep", "done"}
    /\ ev.pc = "sweep" => (ev.i <= Len(ev.tasks) + 1 /\ OneResultPerTaskInOrder(ev.i - 1))
    /\ ev.pc = "done" =>
         /\ OneResultPerTaskInOrder(Len(ev.tasks))
         /\ ev.summary.total_tasks = Len(ev.tasks)
         /\ ev.summary.tasks_evaluated <= ev.summary.total_tasks

\* The tasks of a sweep whose scoring call failed inside evaluate_git_qa: the
\* result has details, and the error is in them.
Swallowed ==
  {i \in 1..Len(ev.results) :
     ev.results[i].has_details /\ ev.results[i].details.error # NoKey}

\* The tasks of a sweep that were scored.
Scored ==
  {i \in 1..Len(ev.results) :
     ev.results[i].has_details /\ ev.results[i].details.error = NoKey}

\* C19: in a finished sweep a task whose scoring failure was swallowed has
\* score 0.0 and no "error" key of its own; it is counted in tasks_evaluated,
\* adds 0.0 to the sum of the mean and 1 to its count; the tasks left out are
\* exactly those whose exception escaped evaluate_task.
C19_SwallowedFailureCountedAsEvaluated ==
  (ev.pc = "done" /\ ev.task_id = 0) =>
    /\ \A i \in Swallowed :
         /\ ev.results[i].score = 0
         /\ ev.results[i].error = NoKey
         /\ i \notin ev.escaped
    /\ ev.escaped = (1..Len(ev.tasks)) \ (Swallowed \cup Scored)
    /\ ev.summary.tasks_evaluated = Cardinality(Swallowed) + Cardinality(Scored)
    /\ ev.summary.average_score =
         IF Swallowed \cup Scored = {} THEN [sum |-> 0, count |-> 1]
         ELSE [sum |-> SumScores(ev.results, Scored),
               count |-> Cardinality(Swallowed) + Cardinality(Scored)]

\* C19 witness: of two tasks the first had its scoring failure swallowed and
\* the second scored 0.70: two tasks are evaluated and the mean is 0.70 / 2.
C19_Witness ==
  /\ ev.pc = "done" /\ ev.task_id = 0
  /\ Swallowed = {1}
  /\ Scored = {2}
  /\ ev.results[2].score = 70
  /\ ev.summary.tasks_evaluated = 2
  /\ ev.summary.average_score = [sum |-> 70, count |-> 2]

====
